---- MODULE Spec2Model ----
(***************************************************************************)
(* utilz: the in-memory logger (src/src/logger.rs) and the utility traits  *)
(* (src/src/lib.rs, src/src/bool_utils.rs).                                *)
(*                                                                         *)
(* The logger is the two process-wide statics LOGS and LOG_LEVEL, each     *)
(* behind its own RwLock, and the operations of `impl Log` run by several  *)
(* threads.  Every lock acquisition, every critical section and the read   *)
(* of the system clock is one step, so that the interleavings between the  *)
(* threshold check and the buffer append are those of the code.  The       *)
(* synchronous build (cfg(not(feature = "async"))) comes first; the        *)
(* asynchronous build, which differs in the initial threshold and in the   *)
(* lock, follows it.                                                       *)
(*                                                                         *)
(* SystemTime::now() is taken as a clock that does not go back: each read  *)
(* shows the time of the read before it or a later one.  The timestamps    *)
(* are data only; no branch of the code depends on them.                   *)
(*                                                                         *)
(* A lock of std can only be poisoned by a panic inside a write-locked     *)
(* section; the write-locked sections are one assignment, Vec::push and    *)
(* Vec::clear, which do not panic short of memory exhaustion, so           *)
(* `.unwrap()` on a lock result has no failing branch here.                *)
(***************************************************************************)
EXTENDS Integers, Sequences, FiniteSets, TLC

(***************************************************************************)
(* Bounds of the model.                                                    *)
(***************************************************************************)
\* number of threads calling into Log
NumThreads == 2
\* number of record calls (log_with_level / log) in a run of interleaved
\* calls; the call number is used as the call's message, so messages
\* identify calls
MaxMsgs == 2
\* the same for a run of calls made one after the other
MaxSeqMsgs == 3
\* the clock starts one tick before the epoch and is read up to MaxTime
\* ticks after it in a run of interleaved calls
MaxTime == 0
\* the same for a run of calls made one after the other
MaxSeqTime == 2
\* number of print_logs calls in a run (bounds the size of standard output)
MaxPrints == 1
\* clock ticks per second: SystemTime is finer than the whole seconds that
\* get_logs renders
TicksPerSec == 2

Threads == 1..NumThreads

(***************************************************************************)
(* enum LogLevel, in declaration order.                                    *)
(***************************************************************************)
LogLevel == {"Error", "Debug", "Info", "Warn"}
NoLevel == "None"

\* variant: the priorities in the declaration order of the enum
level_priority_decl(level) ==
    CASE level = "Error" -> 1
      [] level = "Debug" -> 2
      [] level = "Info"  -> 3
      [] level = "Warn"  -> 4

\* fn level_priority(level: LogLevel) -> u8
level_priority(level) ==
    CASE level = "Error" -> 1
      [] level = "Warn"  -> 2
      [] level = "Info"  -> 3
      [] level = "Debug" -> 4

\* struct Logger { message, level, time }
Logger(message, level, time) ==
    [message |-> message, level |-> level, time |-> time]

(***************************************************************************)
(* RwLock: the threads holding it for writing (at most one) and those      *)
(* holding it for reading.  read() waits while a writer holds the lock,    *)
(* write() while anyone does.                                              *)
(***************************************************************************)
Unlocked == [writer |-> {}, readers |-> {}]

\* variant: a reader that does not wait for the writer
CanRead_beside_writer(lock) == TRUE

CanRead(lock) == lock.writer = {}

\* variant: a writer that does not wait for the readers
CanWrite_ignoring_readers(lock) == lock.writer = {}

CanWrite(lock) == lock.writer = {} /\ lock.readers = {}

ReadLocked(lock, t) == [lock EXCEPT !.readers = @ \cup {t}]
ReadUnlocked(lock, t) == [lock EXCEPT !.readers = @ \ {t}]
WriteLocked(lock, t) == [lock EXCEPT !.writer = {t}]
WriteUnlocked(lock, t) == [lock EXCEPT !.writer = @ \ {t}]

(***************************************************************************)
(* The closure of get_logs: one buffered record rendered as                *)
(*   "[{:?}] @ {}s -> {}"  (level, whole seconds since the epoch, message) *)
(* A time before the epoch makes duration_since fail and renders as 0.     *)
(***************************************************************************)
\* log.time.duration_since(UNIX_EPOCH).unwrap_or(Duration::from_secs(0))
since_unix(time) == IF time < 0 THEN 0 ELSE time

\* variant: the duration in the clock's unit instead of whole seconds
as_ticks(duration) == duration

\* Duration::as_secs: whole seconds, the rest is dropped
as_secs(duration) == duration \div TicksPerSec

format(rec) ==
    [tag |-> rec.level, secs |-> as_secs(since_unix(rec.time)), message |-> rec.message]

VARIABLES
    LOGS,          \* static LOGS: the Vec<Logger> inside the lock
    LOGS_lock,     \* the RwLock around LOGS
    LOG_LEVEL,     \* static LOG_LEVEL: the LogLevel inside the lock
    LEVEL_lock,    \* the RwLock around LOG_LEVEL
    now,           \* the latest time SystemTime::now() has shown, in ticks
    stdout,        \* the lines written by println!
    pc,            \* per thread: where it is in its call
    op,            \* per thread: the function of Log it is in
    level,         \* per thread: the `level` argument of its call
    message,       \* per thread: the `message` argument of its call
    log,           \* per thread: the Logger it has built (<<>> if none yet)
    result,        \* per thread: the Vec<String> being collected / returned
    calls,         \* number of record calls started so far
    prints,        \* number of print_logs calls started so far
    \* history of the run, read by the properties only
    serial,        \* no call has started while another call was running
    entry,         \* while serial: <<buffer and threshold when the running
                   \* call started>>
    returned,      \* messages of the record calls that appended and returned
                   \* since the buffer was last cleared
    hb,            \* <<a, b>>: record call a had returned when b started
    expect,        \* while serial: the Loggers built since the last clear
    clean,         \* a clear has taken effect and no append since
    wiped,         \* messages of the records removed by a clear
    lastSnap,      \* <<r>>: get_logs returned r and no append or clear since
    configured,    \* level of the latest set_up_logger that returned
    printing,      \* <<[before, lines]>>: standard output as it was when the
                   \* latest print_logs got its lines, and these lines
    seen,          \* per thread in a record call: the values the threshold
                   \* has had since the call started (<<>>: not kept)
    \* outside the synchronous logger
    build,         \* "sync" or "async": whether feature "async" is enabled
    waiters,       \* asynchronous build: per lock, the tasks waiting in line
    input,         \* the receiver and arguments of a call of a utility method
    output         \* what the utility methods called on `input` returned

shared == <<LOGS, LOGS_lock, LOG_LEVEL, LEVEL_lock, now, stdout>>
frame == <<pc, op, level, message, log, result>>
counters == <<calls, prints>>
history == <<serial, returned, hb, expect, clean, wiped, lastSnap, configured, printing, seen>>
outside == <<build, input, output>>
vars == <<shared, frame, counters, history, entry, waiters, outside>>

\* the asynchronous build (cfg(feature = "async")) differs from the
\* synchronous one in the initial threshold and in the lock, tokio's RwLock
NoWaiters == [LOGS |-> <<>>, LOG_LEVEL |-> <<>>]

\* thread t waits in no line
Left(queues, t) ==
    [k \in DOMAIN queues |-> SelectSeq(queues[k], LAMBDA u : u # t)]

\* variant: both builds start from Debug
default_level_debug(b) == "Debug"

\* static LOG_LEVEL: RwLock::new(LogLevel::Debug), or with feature "async"
\* Lazy::new(|| RwLock::new(LogLevel::Info))
default_level(b) == IF b = "async" THEN "Info" ELSE "Debug"

NoInput == [trait |-> "none"]

\* the statics of logger.rs before the first call, in build b
InitLog(b) ==
    /\ build = b
    /\ waiters = NoWaiters
    /\ LOGS = <<>>
    /\ LOGS_lock = Unlocked
    /\ LOG_LEVEL = default_level(b)
    /\ LEVEL_lock = Unlocked
    /\ now = -1
    /\ stdout = <<>>
    /\ pc = [t \in Threads |-> "idle"]
    /\ op = [t \in Threads |-> "none"]
    /\ level = [t \in Threads |-> NoLevel]
    /\ message = [t \in Threads |-> 0]
    /\ log = [t \in Threads |-> <<>>]
    /\ result = [t \in Threads |-> <<>>]
    /\ calls = 0
    /\ prints = 0
    /\ serial = TRUE
    /\ entry = <<>>
    /\ returned = {}
    /\ hb = {}
    /\ expect = <<>>
    /\ clean = FALSE
    /\ wiped = {}
    /\ lastSnap = <<>>
    /\ configured = NoLevel
    /\ printing = <<>>

Init ==
    /\ InitLog("sync")
    /\ input = NoInput
    /\ output = <<>>
    /\ seen = <<>>

\* the functions of Log that record: log_with_level and those that call it
RecordFns == {"log_with_level", "log", "log_info", "log_debug", "log_error", "log_warn"}

\* the thresholds seen, once thread t has started a call of function f
Started(t, f) ==
    [u \in DOMAIN seen |-> IF u = t
                           THEN IF f \in RecordFns THEN {LOG_LEVEL} ELSE {}
                           ELSE seen[u]]

\* the thresholds seen, once the threshold has become l
Stored(l) ==
    [u \in DOMAIN seen |-> IF op[u] \in RecordFns THEN seen[u] \cup {l} ELSE {}]

\* the thresholds seen, once the call of thread t has returned
Ended(t) ==
    [u \in DOMAIN seen |-> IF u = t THEN {} ELSE seen[u]]

\* the call of thread t returns: its frame is gone
Return(t) ==
    /\ pc' = [pc EXCEPT ![t] = "idle"]
    /\ op' = [op EXCEPT ![t] = "none"]
    /\ level' = [level EXCEPT ![t] = NoLevel]
    /\ message' = [message EXCEPT ![t] = 0]
    /\ log' = [log EXCEPT ![t] = <<>>]
    /\ result' = [result EXCEPT ![t] = <<>>]
    /\ entry' = <<>>
    /\ UNCHANGED <<waiters, outside>>

\* the call of thread t goes on at `label`
Goto(t, label) ==
    /\ pc' = [pc EXCEPT ![t] = label]
    /\ waiters' = Left(waiters, t)
    /\ UNCHANGED <<op, message, entry, outside>>

Quiet == \A t \in Threads : pc[t] = "idle"

\* thread t enters function f of Log
Enter(t, f, label) ==
    /\ pc[t] = "idle"
    /\ pc' = [pc EXCEPT ![t] = label]
    /\ op' = [op EXCEPT ![t] = f]
    /\ serial' = (serial /\ Quiet)
    /\ expect' = IF serial /\ Quiet THEN expect ELSE <<>>
    /\ entry' = IF serial /\ Quiet
                THEN <<[logs |-> LOGS, level |-> LOG_LEVEL]>>
                ELSE <<>>
    /\ UNCHANGED <<log, result, shared>>
    /\ seen' = Started(t, f)
    /\ UNCHANGED <<returned, clean, wiped, lastSnap, configured, printing>>
    /\ UNCHANGED <<waiters, outside>>

(***************************************************************************)
(* Log::set_up_logger(level):  *LOG_LEVEL.write().unwrap() = level;        *)
(***************************************************************************)
call_set_up_logger(t, l) ==
    /\ Enter(t, "set_up_logger", "sul:write")
    /\ level' = [level EXCEPT ![t] = l]
    /\ UNCHANGED <<message, counters, hb>>

set_up_logger_write(t) ==
    /\ pc[t] = "sul:write"
    /\ CanWrite(LEVEL_lock)
    /\ LEVEL_lock' = WriteLocked(LEVEL_lock, t)
    /\ Goto(t, "sul:store")
    /\ UNCHANGED <<level, log, result>>
    /\ UNCHANGED <<LOGS, LOGS_lock, LOG_LEVEL, now, stdout>>
    /\ UNCHANGED <<counters, history>>

\* variant: the threshold is only ever made more verbose
assign_if_more_verbose(old, new) ==
    IF level_priority(new) > level_priority(old) THEN new ELSE old

\* *guard = level
assign(old, new) == new

\* variant: configuring the logger also starts a new buffer
set_up_logger_store_reset(t) ==
    /\ pc[t] = "sul:store"
    /\ LOG_LEVEL' = assign(LOG_LEVEL, level[t])
    /\ LEVEL_lock' = WriteUnlocked(LEVEL_lock, t)
    /\ LOGS' = <<>>
    /\ configured' = level[t]
    /\ seen' = Stored(LOG_LEVEL')
    /\ Return(t)
    /\ UNCHANGED <<LOGS_lock, now, stdout>>
    /\ UNCHANGED <<counters, serial, returned, hb, expect, clean, wiped, lastSnap, printing>>

set_up_logger_store(t) ==
    /\ pc[t] = "sul:store"
    /\ LOG_LEVEL' = assign(LOG_LEVEL, level[t])
    /\ LEVEL_lock' = WriteUnlocked(LEVEL_lock, t)
    /\ configured' = level[t]
    /\ seen' = Stored(LOG_LEVEL')
    /\ Return(t)
    /\ UNCHANGED <<LOGS, LOGS_lock, now, stdout>>
    /\ UNCHANGED <<counters, serial, returned, hb, expect, clean, wiped, lastSnap, printing>>

(***************************************************************************)
(* Log::log_with_level(level, message) and Log::log(message).  A record    *)
(* call takes the next call number as its message.                         *)
(***************************************************************************)
call_record(t, f, label, l) ==
    /\ Enter(t, f, label)
    /\ calls' = calls + 1
    /\ level' = [level EXCEPT ![t] = l]
    /\ message' = [message EXCEPT ![t] = calls + 1]
    /\ hb' = hb \cup {<<a, calls + 1>> : a \in returned}
    /\ UNCHANGED prints

call_log_with_level(t, l) ==
    call_record(t, "log_with_level", "lwl:get_level", l)

call_log(t) ==
    call_record(t, "log", "log:get_level", NoLevel)

\* Log::log_info / log_debug / log_error / log_warn(message):
\* Self::log_with_level(LogLevel::.., message)
call_log_info(t) == call_record(t, "log_info", "lwl:get_level", "Info")
call_log_debug(t) == call_record(t, "log_debug", "lwl:get_level", "Debug")
call_log_error(t) == call_record(t, "log_error", "lwl:get_level", "Error")
call_log_warn(t) == call_record(t, "log_warn", "lwl:get_level", "Warn")

\* get_level(): LOG_LEVEL.read().unwrap()
get_level_read(t) ==
    /\ pc[t] \in {"log:get_level", "lwl:get_level"}
    /\ CanRead(LEVEL_lock)
    /\ LEVEL_lock' = ReadLocked(LEVEL_lock, t)
    /\ Goto(t, IF pc[t] = "log:get_level" THEN "log:level" ELSE "lwl:level")
    /\ UNCHANGED <<level, log, result>>
    /\ UNCHANGED <<LOGS, LOGS_lock, LOG_LEVEL, now, stdout>>
    /\ UNCHANGED <<counters, history>>

\* Log::log: the value get_level() returns becomes the level argument of
\* log_with_level; the read guard is dropped
log_level(t) ==
    /\ pc[t] = "log:level"
    /\ level' = [level EXCEPT ![t] = LOG_LEVEL]
    /\ LEVEL_lock' = ReadUnlocked(LEVEL_lock, t)
    /\ Goto(t, "lwl:get_level")
    /\ UNCHANGED <<log, result>>
    /\ UNCHANGED <<LOGS, LOGS_lock, LOG_LEVEL, now, stdout>>
    /\ UNCHANGED <<counters, history>>

\* variant: the filter compares with the threshold the build starts from,
\* whatever the threshold has been set to
passes_initial_threshold(l, threshold) ==
    level_priority(l) <= level_priority(default_level("sync"))

\* variant: an exclusive filter
passes_strict(l, threshold) == level_priority(l) < level_priority(threshold)

\* if level_priority(level) <= level_priority(get_level())
passes(l, threshold) == level_priority(l) <= level_priority(threshold)

\* variant: the read guard of the threshold is kept while the call goes on
log_with_level_filter_keeps_guard(t) ==
    /\ pc[t] = "lwl:level"
    /\ IF passes(level[t], LOG_LEVEL)
       THEN /\ Goto(t, "lwl:now")
            /\ UNCHANGED <<level, log, result, hb, seen, LEVEL_lock>>
       ELSE /\ Return(t)
            /\ LEVEL_lock' = ReadUnlocked(LEVEL_lock, t)
            /\ hb' = {p \in hb : p[2] # message[t]}
            /\ seen' = Ended(t)
    /\ UNCHANGED <<LOGS, LOGS_lock, LOG_LEVEL, now, stdout>>
    /\ UNCHANGED <<counters, serial, returned, expect, clean, wiped, lastSnap, configured, printing>>

\* log_with_level: the threshold is read, the read guard dropped, and the
\* call either goes on to build its record or returns
log_with_level_filter(t) ==
    /\ pc[t] = "lwl:level"
    /\ LEVEL_lock' = ReadUnlocked(LEVEL_lock, t)
    /\ IF passes(level[t], LOG_LEVEL)
       THEN /\ Goto(t, "lwl:now")
            /\ UNCHANGED <<level, log, result, hb, seen>>
       ELSE /\ Return(t)
            /\ hb' = {p \in hb : p[2] # message[t]}
            /\ seen' = Ended(t)
    /\ UNCHANGED <<LOGS, LOGS_lock, LOG_LEVEL, now, stdout>>
    /\ UNCHANGED <<counters, serial, returned, expect, clean, wiped, lastSnap, configured, printing>>

\* let log = Logger { message: message.to_string(), level, time: SystemTime::now() }
\* The clock has not gone back since it was last read, and shows at most
\* `horizon`.
log_with_level_now(t, horizon) ==
    /\ pc[t] = "lwl:now"
    /\ \E time \in now..horizon :
          /\ now' = time
          /\ log' = [log EXCEPT ![t] = <<Logger(message[t], level[t], time)>>]
          /\ expect' = IF serial
                       THEN Append(expect, Logger(message[t], level[t], time))
                       ELSE <<>>
    /\ Goto(t, "lwl:write")
    /\ UNCHANGED <<level, result>>
    /\ UNCHANGED <<LOGS, LOGS_lock, LOG_LEVEL, LEVEL_lock, stdout>>
    /\ UNCHANGED <<counters, serial, returned, hb, clean, wiped, lastSnap, configured, printing, seen>>

\* LOGS.write().unwrap()
log_with_level_write(t) ==
    /\ pc[t] = "lwl:write"
    /\ CanWrite(LOGS_lock)
    /\ LOGS_lock' = WriteLocked(LOGS_lock, t)
    /\ Goto(t, "lwl:push")
    /\ UNCHANGED <<level, log, result>>
    /\ UNCHANGED <<LOGS, LOG_LEVEL, LEVEL_lock, now, stdout>>
    /\ UNCHANGED <<counters, history>>

\* variant: the record is put first
push_front(buf, rec) == <<rec>> \o buf

\* variant: the record is written over the last one
push_overwrite(buf, rec) ==
    IF buf = <<>> THEN <<rec>> ELSE [buf EXCEPT ![Len(buf)] = rec]

\* Vec::push
push(buf, rec) == Append(buf, rec)

\* .push(log); the write guard is dropped and the call returns
log_with_level_push(t) ==
    /\ pc[t] = "lwl:push"
    /\ LOGS' = push(LOGS, log[t][1])
    /\ LOGS_lock' = WriteUnlocked(LOGS_lock, t)
    /\ returned' = returned \cup {message[t]}
    /\ clean' = FALSE
    /\ lastSnap' = <<>>
    /\ seen' = Ended(t)
    /\ Return(t)
    /\ UNCHANGED <<LOG_LEVEL, LEVEL_lock, now, stdout>>
    /\ UNCHANGED <<counters, serial, hb, expect, wiped, configured, printing>>

(***************************************************************************)
(* Log::get_logs() and Log::print_logs().                                  *)
(***************************************************************************)
call_get_logs(t) ==
    /\ Enter(t, "get_logs", "get:read")
    /\ UNCHANGED <<level, message, counters, hb>>

call_print_logs(t) ==
    /\ Enter(t, "print_logs", "get:read")
    /\ prints' = prints + 1
    /\ UNCHANGED <<level, message, calls, hb>>

\* LOGS.read().unwrap()
get_logs_read(t) ==
    /\ pc[t] = "get:read"
    /\ CanRead(LOGS_lock)
    /\ LOGS_lock' = ReadLocked(LOGS_lock, t)
    /\ Goto(t, "get:iter")
    /\ UNCHANGED <<level, log, result>>
    /\ UNCHANGED <<LOGS, LOG_LEVEL, LEVEL_lock, now, stdout>>
    /\ UNCHANGED <<counters, history>>

\* .iter().map(|log| ...): the next record of the buffer is rendered
get_logs_map(t) ==
    /\ pc[t] = "get:iter"
    /\ Len(result[t]) < Len(LOGS)
    /\ result' = [result EXCEPT ![t] = Append(@, format(LOGS[Len(@) + 1]))]
    /\ UNCHANGED <<pc, op, level, message, log, entry>>
    /\ UNCHANGED <<shared, counters, history, waiters, outside>>

\* variant: the buffer is drained by the read
get_logs_collect_drain(t) ==
    /\ pc[t] = "get:iter"
    /\ Len(result[t]) >= Len(LOGS)
    /\ LOGS' = <<>>
    /\ LOGS_lock' = ReadUnlocked(LOGS_lock, t)
    /\ lastSnap' = <<result[t]>>
    /\ IF op[t] = "print_logs"
       THEN /\ Goto(t, "print:line")
            /\ printing' = <<[before |-> stdout, lines |-> result[t]]>>
            /\ UNCHANGED <<level, log, result>>
       ELSE /\ Return(t)
            /\ UNCHANGED printing
    /\ UNCHANGED <<LOG_LEVEL, LEVEL_lock, now, stdout>>
    /\ UNCHANGED <<counters, serial, returned, hb, expect, clean, wiped, configured, seen>>

\* .collect(): the iterator is exhausted, the read guard is dropped and the
\* Vec<String> is returned (to the caller, or to the loop of print_logs)
get_logs_collect(t) ==
    /\ pc[t] = "get:iter"
    /\ Len(result[t]) >= Len(LOGS)
    /\ LOGS_lock' = ReadUnlocked(LOGS_lock, t)
    /\ lastSnap' = <<result[t]>>
    /\ IF op[t] = "print_logs"
       THEN /\ Goto(t, "print:line")
            /\ printing' = <<[before |-> stdout, lines |-> result[t]]>>
            /\ UNCHANGED <<level, log, result>>
       ELSE /\ Return(t)
            /\ UNCHANGED printing
    /\ UNCHANGED <<LOGS, LOG_LEVEL, LEVEL_lock, now, stdout>>
    /\ UNCHANGED <<counters, serial, returned, hb, expect, clean, wiped, configured, seen>>

\* variant: the newest line is printed first
print_logs_line_newest_first(t) ==
    /\ pc[t] = "print:line"
    /\ result[t] # <<>>
    /\ stdout' = Append(stdout, result[t][Len(result[t])])
    /\ result' = [result EXCEPT ![t] = SubSeq(@, 1, Len(@) - 1)]
    /\ UNCHANGED <<pc, op, level, message, log, entry>>
    /\ UNCHANGED <<LOGS, LOGS_lock, LOG_LEVEL, LEVEL_lock, now>>
    /\ UNCHANGED <<counters, history, waiters, outside>>

\* for log in Self::get_logs() { println!("{}", log); }
print_logs_line(t) ==
    /\ pc[t] = "print:line"
    /\ result[t] # <<>>
    /\ stdout' = Append(stdout, Head(result[t]))
    /\ result' = [result EXCEPT ![t] = Tail(@)]
    /\ UNCHANGED <<pc, op, level, message, log, entry>>
    /\ UNCHANGED <<LOGS, LOGS_lock, LOG_LEVEL, LEVEL_lock, now>>
    /\ UNCHANGED <<counters, history, waiters, outside>>

print_logs_end(t) ==
    /\ pc[t] = "print:line"
    /\ result[t] = <<>>
    /\ Return(t)
    /\ UNCHANGED <<shared, counters, history>>

(***************************************************************************)
(* Log::clear():  LOGS.write().unwrap().clear();                           *)
(***************************************************************************)
call_clear(t) ==
    /\ Enter(t, "clear", "clear:write")
    /\ UNCHANGED <<level, message, counters, hb>>

clear_write(t) ==
    /\ pc[t] = "clear:write"
    /\ CanWrite(LOGS_lock)
    /\ LOGS_lock' = WriteLocked(LOGS_lock, t)
    /\ Goto(t, "clear:clear")
    /\ UNCHANGED <<level, log, result>>
    /\ UNCHANGED <<LOGS, LOG_LEVEL, LEVEL_lock, now, stdout>>
    /\ UNCHANGED <<counters, history>>

\* variant: only the oldest record is removed
vec_remove_first(buf) == IF buf = <<>> THEN buf ELSE Tail(buf)

\* variant: only the last record is removed
vec_pop(buf) == IF buf = <<>> THEN buf ELSE SubSeq(buf, 1, Len(buf) - 1)

\* Vec::clear
vec_clear(buf) == <<>>

clear_clear(t) ==
    /\ pc[t] = "clear:clear"
    /\ LOGS' = vec_clear(LOGS)
    /\ LOGS_lock' = WriteUnlocked(LOGS_lock, t)
    /\ returned' = {}
    /\ hb' = {}
    /\ expect' = <<>>
    /\ clean' = TRUE
    /\ wiped' = wiped \cup {LOGS[i].message : i \in 1..Len(LOGS)}
    /\ lastSnap' = <<>>
    /\ Return(t)
    /\ UNCHANGED <<LOG_LEVEL, LEVEL_lock, now, stdout>>
    /\ UNCHANGED <<counters, serial, configured, printing, seen>>

(***************************************************************************)
(* The threads call set_up_logger, log_with_level, log, get_logs and clear *)
(* in any order and interleave at every step.  print_logs is left to the   *)
(* specification SpecPrint below: towards the other threads it is a        *)
(* get_logs, and what it adds, the lines on standard output, no operation  *)
(* reads.                                                                  *)
(***************************************************************************)
Main == CHOOSE t \in Threads : \A u \in Threads : t <= u

Step(t, horizon) ==
    \/ set_up_logger_write(t)
    \/ set_up_logger_store(t)
    \/ get_level_read(t)
    \/ log_level(t)
    \/ log_with_level_filter(t)
    \/ log_with_level_now(t, horizon)
    \/ log_with_level_write(t)
    \/ log_with_level_push(t)
    \/ get_logs_read(t)
    \/ get_logs_map(t)
    \/ get_logs_collect(t)
    \/ clear_write(t)
    \/ clear_clear(t)

Next ==
    \/ \E t \in Threads, l \in LogLevel : call_set_up_logger(t, l)
    \/ \E t \in Threads, l \in LogLevel : calls < MaxMsgs /\ call_log_with_level(t, l)
    \/ \E t \in Threads : calls < MaxMsgs /\ call_log(t)
    \/ \E t \in Threads : call_get_logs(t)
    \/ \E t \in Threads : call_clear(t)
    \/ \E t \in Threads : Step(t, MaxTime)

Spec == Init /\ [][Next]_vars

(***************************************************************************)
(* The same interleaved calls, with the history `seen` kept: for every     *)
(* record call that is running, the values the threshold has had since the *)
(* call started.                                                           *)
(***************************************************************************)
InitSeen ==
    /\ InitLog("sync")
    /\ input = NoInput
    /\ output = <<>>
    /\ seen = [t \in Threads |-> {}]

SpecSeen == InitSeen /\ [][Next]_vars

(***************************************************************************)
(* The same program with its calls made one after the other, by one        *)
(* thread: a call starts when the call before it has returned.             *)
(***************************************************************************)
NextSeq ==
    \/ \E l \in LogLevel : call_set_up_logger(Main, l)
    \/ \E l \in LogLevel : calls < MaxSeqMsgs /\ call_log_with_level(Main, l)
    \/ calls < MaxSeqMsgs /\ call_log(Main)
    \/ call_get_logs(Main)
    \/ call_clear(Main)
    \/ Step(Main, MaxSeqTime)

SpecSeq == Init /\ [][NextSeq]_vars

(***************************************************************************)
(* The asynchronous build, `impl Log` under cfg(feature = "async"): the    *)
(* same functions statement for statement, each an async fn, with          *)
(* `.await` where the synchronous build has `.unwrap()`.  The lock is      *)
(* tokio::sync::RwLock, which is fair: a task that cannot have the lock    *)
(* at once joins a line, the lock is handed out in the order of the line,  *)
(* and a task that finds the line occupied joins it (a reader too, also    *)
(* while other readers hold the lock).  The tasks run on the threads of    *)
(* the runtime, and interleave at every step as the threads do.  The       *)
(* actions between the lock acquisitions are those of the synchronous      *)
(* build.                                                                  *)
(***************************************************************************)
\* variant: a task joins the line before it takes the lock, also a free one
Turn_after_waiting(queue, t) == IF queue = <<>> THEN FALSE ELSE Head(queue) = t

\* nobody is in line before task t
Turn(queue, t) == IF queue = <<>> THEN TRUE ELSE Head(queue) = t

\* the lock of the acquisition task t is at, and whether t can have it now
Ready(t) ==
    CASE pc[t] = "sul:write" ->
            Turn(waiters.LOG_LEVEL, t) /\ CanWrite(LEVEL_lock)
      [] pc[t] \in {"log:get_level", "lwl:get_level"} ->
            Turn(waiters.LOG_LEVEL, t) /\ CanRead(LEVEL_lock)
      [] pc[t] \in {"lwl:write", "clear:write"} ->
            Turn(waiters.LOGS, t) /\ CanWrite(LOGS_lock)
      [] pc[t] = "get:read" ->
            Turn(waiters.LOGS, t) /\ CanRead(LOGS_lock)
      [] OTHER -> TRUE

\* the future of read() or write() is polled and is pending: the task joins
\* the line of the lock
await_pending(t) ==
    /\ ~Ready(t)
    /\ \A k \in DOMAIN waiters : \A i \in 1..Len(waiters[k]) : waiters[k][i] # t
    /\ waiters' =
          IF pc[t] \in {"sul:write", "log:get_level", "lwl:get_level"}
          THEN [waiters EXCEPT !.LOG_LEVEL = Append(@, t)]
          ELSE [waiters EXCEPT !.LOGS = Append(@, t)]
    /\ UNCHANGED <<shared, frame, counters, history, entry, outside>>

\* *LOG_LEVEL.write().await
async_set_up_logger_write(t) ==
    /\ Turn(waiters.LOG_LEVEL, t)
    /\ set_up_logger_write(t)

\* async fn get_level(): LOG_LEVEL.read().await
async_get_level_read(t) ==
    /\ Turn(waiters.LOG_LEVEL, t)
    /\ get_level_read(t)

\* LOGS.write().await (log_with_level)
async_log_with_level_write(t) ==
    /\ Turn(waiters.LOGS, t)
    /\ log_with_level_write(t)

\* LOGS.read().await
async_get_logs_read(t) ==
    /\ Turn(waiters.LOGS, t)
    /\ get_logs_read(t)

\* LOGS.write().await (clear)
async_clear_write(t) ==
    /\ Turn(waiters.LOGS, t)
    /\ clear_write(t)

(***************************************************************************)
(* Either build with set_up_logger never called: one thread (or task)      *)
(* calls log_info, log_debug, log_error, log_warn and get_logs, one call   *)
(* after the other.                                                        *)
(***************************************************************************)
\* number of record calls in such a run
MaxDefaultMsgs == 4

\* the main thread, if the build is b
MainOf(b) == IF build = b THEN {Main} ELSE {}

InitBuilds ==
    /\ \E b \in {"sync", "async"} : InitLog(b)
    /\ input = NoInput
    /\ output = <<>>
    /\ seen = <<>>

NextDefault ==
    \/ calls < MaxDefaultMsgs /\ call_log_info(Main)
    \/ calls < MaxDefaultMsgs /\ call_log_debug(Main)
    \/ calls < MaxDefaultMsgs /\ call_log_error(Main)
    \/ calls < MaxDefaultMsgs /\ call_log_warn(Main)
    \/ call_get_logs(Main)
    \/ \E t \in MainOf("sync") : get_level_read(t)
    \/ \E t \in MainOf("sync") : log_with_level_write(t)
    \/ \E t \in MainOf("sync") : get_logs_read(t)
    \/ \E t \in MainOf("async") : async_get_level_read(t)
    \/ \E t \in MainOf("async") : async_log_with_level_write(t)
    \/ \E t \in MainOf("async") : async_get_logs_read(t)
    \/ log_with_level_filter(Main)
    \/ log_with_level_now(Main, MaxTime)
    \/ log_with_level_push(Main)
    \/ get_logs_map(Main)
    \/ get_logs_collect(Main)

SpecDefault == InitBuilds /\ [][NextDefault]_vars

(***************************************************************************)
(* Either build, its calls interleaved: the threads of the synchronous     *)
(* build take the locks of std, the tasks of the asynchronous build those  *)
(* of tokio.                                                               *)
(***************************************************************************)
\* the callers, if the build is b
ThreadsOf(b) == IF build = b THEN Threads ELSE {}

\* a step of task t of the asynchronous build
AsyncStep(t, horizon) ==
    \/ await_pending(t)
    \/ async_set_up_logger_write(t)
    \/ set_up_logger_store(t)
    \/ async_get_level_read(t)
    \/ log_level(t)
    \/ log_with_level_filter(t)
    \/ log_with_level_now(t, horizon)
    \/ async_log_with_level_write(t)
    \/ log_with_level_push(t)
    \/ async_get_logs_read(t)
    \/ get_logs_map(t)
    \/ get_logs_collect(t)
    \/ async_clear_write(t)
    \/ clear_clear(t)

\* the calls of Next, made by the tasks of the asynchronous build
NextAsync ==
    \/ \E t \in Threads, l \in LogLevel : call_set_up_logger(t, l)
    \/ \E t \in Threads, l \in LogLevel : calls < MaxMsgs /\ call_log_with_level(t, l)
    \/ \E t \in Threads : calls < MaxMsgs /\ call_log(t)
    \/ \E t \in Threads : call_get_logs(t)
    \/ \E t \in Threads : call_clear(t)
    \/ \E t \in Threads : AsyncStep(t, MaxTime)

NextBuilds ==
    \/ \E t \in ThreadsOf("sync") : Next
    \/ \E t \in ThreadsOf("async") : NextAsync

SpecBuilds == InitBuilds /\ [][NextBuilds]_vars

(***************************************************************************)
(* The interleaved calls of Spec, with print_logs among the calls of the   *)
(* main thread.                                                            *)
(***************************************************************************)
NextPrint ==
    \/ Next
    \/ prints < MaxPrints /\ call_print_logs(Main)
    \/ print_logs_line(Main)
    \/ print_logs_end(Main)

SpecPrint == Init /\ [][NextPrint]_vars

(***************************************************************************)
(* The interleaved calls under a fair scheduler: a thread that is inside a *)
(* call and can take its next step at every instant from some instant on   *)
(* does take it.  Whether a thread starts a call is up to the program.  A  *)
(* thread that waits for a lock can take its step only while the lock is   *)
(* free for it, and std's RwLock promises no order among those that wait.  *)
(***************************************************************************)
\* the record calls made under the fair scheduler
MaxFairMsgs == 1

\* thread t takes the next step of the call it is in
Advance(t) ==
    \/ Step(t, MaxTime)
    \/ print_logs_line(t)
    \/ print_logs_end(t)

NextFair ==
    \/ \E t \in Threads, l \in LogLevel : call_set_up_logger(t, l)
    \/ \E t \in Threads, l \in LogLevel : calls < MaxFairMsgs /\ call_log_with_level(t, l)
    \/ \E t \in Threads : calls < MaxFairMsgs /\ call_log(t)
    \/ \E t \in Threads : call_get_logs(t)
    \/ \E t \in Threads : call_clear(t)
    \/ prints < MaxPrints /\ call_print_logs(Main)
    \/ \E t \in Threads : Advance(t)

Fairness == \A t \in Threads : WF_vars(Advance(t))

SpecFair == Init /\ [][NextFair]_vars /\ Fairness

(***************************************************************************)
(* The utility traits.  A method is a function of its receiver and its     *)
(* arguments; `input` is drawn among the receivers and arguments below and *)
(* `output` collects what the methods of the trait return for it.          *)
(***************************************************************************)
\* Option<T> and Result<T, E>
None == [some |-> FALSE]
Some(v) == [some |-> TRUE, value |-> v]
Ok(v) == [ok |-> TRUE, value |-> v]
Err(e) == [ok |-> FALSE, error |-> e]

\* Result::ok and Option::unwrap_or
ok(r) == IF r.ok THEN Some(r.value) ELSE None
unwrap_or(o, default) == IF o.some THEN o.value ELSE default

\* a call of a method that takes a closure f: FnOnce() -> X.  The closure is
\* known by the value it returns; `ran` counts how often it was invoked.
NotRun == [ret |-> None, ran |-> 0]
Run(f) == [ret |-> Some(f), ran |-> 1]

\* output' : the method has returned r
Returned(method, r) ==
    /\ method \notin DOMAIN output
    /\ output' = (method :> r) @@ output
    /\ UNCHANGED <<input, build, waiters, shared, frame, counters, history, entry>>

(***************************************************************************)
(* ConvertUtils (lib.rs): to, to_or, to_result over TryFrom, for the       *)
(* integer types of 8 and 16 bits.                                         *)
(***************************************************************************)
IntType == {"i8", "u8", "i16", "u16"}
Signed(T) == T \in {"i8", "i16"}
Bits(T) == IF T \in {"i8", "u8"} THEN 8 ELSE 16
MIN(T) == IF Signed(T) THEN -(2^(Bits(T) - 1)) ELSE 0
MAX(T) == IF Signed(T) THEN 2^(Bits(T) - 1) - 1 ELSE 2^Bits(T) - 1

\* `v as U`: the low bits of v, read as a U
as_cast(v, U) ==
    LET low == v % (2^Bits(U))
    IN  IF Signed(U) /\ low > MAX(U) THEN low - 2^Bits(U) ELSE low

\* variant: a conversion that keeps the low bits of a value out of range
try_from_wrapping(v, U) == Ok(as_cast(v, U))

\* U::try_from(v) for integers: Err(TryFromIntError) out of U's range
try_from(v, U) ==
    IF v < MIN(U) \/ v > MAX(U) THEN Err("TryFromIntError") ELSE Ok(as_cast(v, U))

\* fn to<U: TryFrom<T>>(self) -> Option<U>
to(self, U) == ok(try_from(self, U))

\* fn to_or<U: TryFrom<T>>(self, fallback: U) -> U
to_or(self, U, fallback) == unwrap_or(to(self, U), fallback)

\* fn to_result<U: TryFrom<T>>(self) -> Result<U, U::Error>
to_result(self, U) == try_from(self, U)

\* the values tried are those at most MaxNear away from 0 or from a limit of
\* one of the types
MaxNear == 3

Near ==
    {b + d : b \in {0} \cup {MIN(T) : T \in IntType} \cup {MAX(T) : T \in IntType},
             d \in -MaxNear..MaxNear}

\* the values of type T among vs
Of(T, vs) == {v \in vs : MIN(T) <= v /\ v <= MAX(T)}

ConvertInputs ==
    UNION {{[trait |-> "ConvertUtils", T |-> T, self |-> v, U |-> U, fallback |-> f] :
               v \in Of(T, Near), f \in {MIN(U), MAX(U)}} :
           T \in IntType, U \in IntType}

call_to ==
    /\ input.trait = "ConvertUtils"
    /\ Returned("to", to(input.self, input.U))

call_to_or ==
    /\ input.trait = "ConvertUtils"
    /\ Returned("to_or", to_or(input.self, input.U, input.fallback))

call_to_result ==
    /\ input.trait = "ConvertUtils"
    /\ Returned("to_result", to_result(input.self, input.U))

(***************************************************************************)
(* IfOrdUtils (bool_utils.rs), for T: PartialOrd.  The values of T are the *)
(* numbers 0..MaxOrd and one value, as f64::NAN, that compares with        *)
(* nothing, itself included.                                               *)
(***************************************************************************)
MaxOrd == 3

NaN == [nan |-> TRUE, n |-> 0]
Ord == {[nan |-> FALSE, n |-> i] : i \in 0..MaxOrd} \cup {NaN}

\* PartialOrd::lt, gt, le, ge
lt(a, b) == ~a.nan /\ ~b.nan /\ a.n < b.n
gt(a, b) == ~a.nan /\ ~b.nan /\ a.n > b.n
le(a, b) == ~a.nan /\ ~b.nan /\ a.n <= b.n
ge(a, b) == ~a.nan /\ ~b.nan /\ a.n >= b.n

\* the values a closure may return
Closures == {"X", "Y"}

\* variant: the lower bound is included
if_between_from_low(self, low, high, f) ==
    IF ge(self, low) /\ lt(self, high) THEN Run(f) ELSE NotRun

\* if self > low && self < high { Some(f()) } else { None }
if_between(self, low, high, f) ==
    IF gt(self, low) /\ lt(self, high) THEN Run(f) ELSE NotRun

\* if self >= low && self <= high { Some(f()) } else { None }
if_between_inclusive(self, low, high, f) ==
    IF ge(self, low) /\ le(self, high) THEN Run(f) ELSE NotRun

IfOrdInputs ==
    {[trait |-> "IfOrdUtils", self |-> x, low |-> l, high |-> h, f |-> f] :
        x \in Ord, l \in Ord, h \in Ord, f \in Closures}

call_if_between ==
    /\ input.trait = "IfOrdUtils"
    /\ Returned("if_between", if_between(input.self, input.low, input.high, input.f))

call_if_between_inclusive ==
    /\ input.trait = "IfOrdUtils"
    /\ Returned("if_between_inclusive",
                if_between_inclusive(input.self, input.low, input.high, input.f))

(***************************************************************************)
(* BoolUtils (bool_utils.rs).                                              *)
(***************************************************************************)
\* variant: a `not` that returns its receiver
not_same(self) == self

\* fn not(&self) -> bool { !self }
not(self) == ~self

\* if *self { Some(f()) } else { None }
if_true(self, f) == IF self THEN Run(f) ELSE NotRun

\* if self.not() { Some(f()) } else { None }
if_false(self, f) == IF not(self) THEN Run(f) ELSE NotRun

BoolInputs ==
    {[trait |-> "BoolUtils", self |-> b, f |-> f] : b \in BOOLEAN, f \in Closures}

call_if_true ==
    /\ input.trait = "BoolUtils"
    /\ Returned("if_true", if_true(input.self, input.f))

call_if_false ==
    /\ input.trait = "BoolUtils"
    /\ Returned("if_false", if_false(input.self, input.f))

(***************************************************************************)
(* DurationUtils (lib.rs): pretty.  A Duration is a number of clock ticks, *)
(* TicksPerSec to the second, as for the timestamps of the logger.         *)
(***************************************************************************)
\* the longest Duration tried, in seconds: a day and an hour
MaxPrettySecs == 90000

\* `{}` of an unsigned integer: its decimal digits
RECURSIVE Display(_)
Display(n) ==
    LET digit == <<"0", "1", "2", "3", "4", "5", "6", "7", "8", "9">>[(n % 10) + 1]
    IN  IF n < 10 THEN <<digit>> ELSE Append(Display(n \div 10), digit)

\* variant: the hours of the day, the days dropped
pretty_hour_of_day(self) ==
    LET total_secs == as_secs(self)
        hours == (total_secs \div 3600) % 24
        mins == (total_secs % 3600) \div 60
        secs == total_secs % 60
    IN  Display(hours) \o <<"h", " ">> \o Display(mins) \o <<"m", " ">>
           \o Display(secs) \o <<"s">>

\* format!("{}h {}m {}s", hours, mins, secs)
pretty(self) ==
    LET total_secs == as_secs(self)
        hours == total_secs \div 3600
        mins == (total_secs % 3600) \div 60
        secs == total_secs % 60
    IN  Display(hours) \o <<"h", " ">> \o Display(mins) \o <<"m", " ">>
           \o Display(secs) \o <<"s">>

DurationInputs ==
    {[trait |-> "DurationUtils", self |-> d] :
        d \in 0..(MaxPrettySecs * TicksPerSec + TicksPerSec - 1)}

call_pretty ==
    /\ input.trait = "DurationUtils"
    /\ Returned("pretty", pretty(input.self))

(***************************************************************************)
(* One receiver with its arguments, and the methods of its trait called on *)
(* it in any order.  The logger is not called.                             *)
(***************************************************************************)
InitUtil ==
    /\ InitLog("sync")
    /\ input \in ConvertInputs \cup IfOrdInputs \cup BoolInputs \cup DurationInputs
    /\ output = <<>>
    /\ seen = <<>>

NextUtil ==
    \/ call_to
    \/ call_to_or
    \/ call_to_result
    \/ call_if_between
    \/ call_if_between_inclusive
    \/ call_if_true
    \/ call_if_false
    \/ call_pretty

SpecUtil == InitUtil /\ [][NextUtil]_vars

(***************************************************************************)
(* Properties.  The priorities as the specification states them:           *)
(* Error=1, Warn=2, Info=3, Debug=4.                                       *)
(***************************************************************************)
priority ==
    [l \in LogLevel |-> CASE l = "Error" -> 1
                          [] l = "Warn"  -> 2
                          [] l = "Info"  -> 3
                          [] l = "Debug" -> 4]

\* thread t is in a record call (log_with_level, or log once it has its level)
Recording(t) == pc[t] \in {"lwl:get_level", "lwl:level", "lwl:now", "lwl:write", "lwl:push"}

\* the step taken is the return of thread t from its call
Returns(t) == pc[t] # "idle" /\ pc'[t] = "idle"

\* buf extended by exactly one record, at its end, with message m and level l
AppendedTo(buf, m, l, buf2) ==
    /\ Len(buf2) = Len(buf) + 1
    /\ SubSeq(buf2, 1, Len(buf)) = buf
    /\ buf2[Len(buf2)].message = m
    /\ buf2[Len(buf2)].level = l

\* C1: with no other operation running, when log_with_level(L, m) returns the
\* buffer is the buffer of the call's start extended by the one record {m, L}
\* at its end if priority(L) <= priority(T), T the threshold at the call's
\* start, and is the buffer of the call's start otherwise (inclusive filter).
C1_FilterInclusive ==
    [][\A t \in Threads :
          (op[t] = "log_with_level" /\ Returns(t) /\ entry # <<>>) =>
             IF priority[level[t]] <= priority[entry[1].level]
             THEN AppendedTo(entry[1].logs, message[t], level[t], LOGS')
             ELSE LOGS' = entry[1].logs]_vars

\* C1 witness: under threshold Error, set by set_up_logger, two calls of other
\* levels were filtered out and a call at level Error itself was appended.
C1_Witness ==
    /\ serial /\ Quiet
    /\ configured = "Error" /\ LOG_LEVEL = "Error"
    /\ calls = 3
    /\ Len(LOGS) = 1 /\ LOGS[1].level = "Error" /\ LOGS[1].message = 3
    /\ wiped = {}

\* C2: a call of Log::log returns only by appending its one record, whose
\* level is the level the call obtained from the threshold.
C2_LogAlwaysAppends ==
    [][\A t \in Threads :
          (op[t] = "log" /\ Returns(t)) =>
             /\ pc[t] = "lwl:push"
             /\ AppendedTo(LOGS, message[t], level[t], LOGS')]_vars

\* message m is the message of exactly one record of buf
Once(buf, m) == Cardinality({i \in 1..Len(buf) : buf[i].message = m}) = 1

\* C3: the record calls that passed the filter and have returned since the
\* buffer was last cleared, concurrent or not, each have their record in the
\* buffer exactly once, whole, and the buffer holds nothing else: its length
\* is the number of these calls.
C3_EachRecordOnce ==
    /\ Len(LOGS) = Cardinality(returned)
    /\ \A m \in returned : Once(LOGS, m)
    /\ \A i \in 1..Len(LOGS) :
          /\ DOMAIN LOGS[i] = {"message", "level", "time"}
          /\ LOGS[i].level \in LogLevel
          /\ LOGS[i].message \in returned

\* C3 witness: two record calls ran concurrently (the later call appended
\* first) and both records are in the buffer.
C3_Witness ==
    /\ Quiet
    /\ returned = {1, 2}
    /\ Len(LOGS) = 2
    /\ LOGS[1].message = 2 /\ LOGS[2].message = 1

\* C4: if record call a had returned when record call b started, and both
\* records are in the buffer, the record of a is at a smaller index than the
\* record of b.
C4_CallOrderIsBufferOrder ==
    \A p \in hb :
       \A i, j \in 1..Len(LOGS) :
          (LOGS[i].message = p[1] /\ LOGS[j].message = p[2]) => i < j

\* C4 witness: call 1 returned before call 2 started, both records are in the
\* buffer, and the calls were interleaved with a call of another thread.
C4_Witness ==
    /\ <<1, 2>> \in hb
    /\ ~serial
    /\ \E i, j \in 1..Len(LOGS) : LOGS[i].message = 1 /\ LOGS[j].message = 2

\* the rendering of a whole buffer
Rendering(buf) == [i \in 1..Len(buf) |-> format(buf[i])]

\* thread t has collected every line and get_logs is about to return result[t]
Collected(t) == pc[t] = "get:iter" /\ Len(result[t]) >= Len(LOGS)

\* C5: from the first line get_logs collects until it returns, the lines it
\* holds are the rendering of the first records of the buffer as it is, and
\* what it returns is the rendering of the whole buffer as it is at the
\* instant of the return: no append and no clear takes effect under a reader.
C5_SnapshotIsOneInstant ==
    \A t \in Threads :
       pc[t] = "get:iter" =>
          /\ Len(result[t]) <= Len(LOGS)
          /\ result[t] = SubSeq(Rendering(LOGS), 1, Len(result[t]))
          /\ Collected(t) => result[t] = Rendering(LOGS)

\* C5 witness: get_logs has collected a non-empty buffer while another thread
\* waits to append or to clear.
C5_Witness ==
    \E t, u \in Threads :
       /\ Collected(t) /\ result[t] # <<>>
       /\ pc[u] \in {"lwl:write", "clear:write"}

\* the line the specification gives for a record: its level tag, the whole
\* seconds since the epoch of its timestamp, its message
Line(rec) ==
    [tag |-> rec.level,
     secs |-> IF rec.time < 0 THEN 0 ELSE rec.time \div TicksPerSec,
     message |-> rec.message]

\* C6: from an empty buffer, after record calls made one after the other of
\* which N passed the filter (no clear since), get_logs returns N lines, the
\* i-th being the line of the i-th passing call.
C6_SnapshotOfSerialCalls ==
    \A t \in Threads :
       (serial /\ Collected(t)) =>
          /\ Len(result[t]) = Len(expect)
          /\ \A i \in 1..Len(expect) : result[t][i] = Line(expect[i])

\* C6 witness: threshold Warn; call 1 at Info was dropped, call 2 at Error and
\* call 3 at Warn were appended; get_logs holds the two lines, and the
\* timestamps of the two records render differently.
C6_Witness ==
    \E t \in Threads :
       /\ serial /\ Collected(t)
       /\ LOG_LEVEL = "Warn" /\ calls = 3 /\ wiped = {}
       /\ Len(result[t]) = 2
       /\ result[t][1].tag = "Error" /\ result[t][1].message = 2
       /\ result[t][2].tag = "Warn" /\ result[t][2].message = 3
       /\ result[t][1].secs < result[t][2].secs

\* C7: while a clear has taken effect and no record has been appended since,
\* get_logs collects nothing and returns the empty sequence; and no line that
\* get_logs collects is of a record that a clear has removed.
C7_EmptyAfterClear ==
    \A t \in Threads :
       pc[t] = "get:iter" =>
          /\ clean => (result[t] = <<>> /\ Collected(t))
          /\ \A i \in 1..Len(result[t]) : result[t][i].message \notin wiped

\* C7 witness: a clear has removed records under a threshold other than the
\* default, nothing was appended since, and get_logs is about to return.
C7_Witness ==
    \E t \in Threads :
       /\ Collected(t) /\ clean /\ wiped # {}
       /\ LOG_LEVEL # "Debug"

\* the step taken is a step of thread t
StepOf(t) == <<pc[t], result[t]>>' # <<pc[t], result[t]>>

\* C8: no step of get_logs changes the buffer or the threshold, and get_logs
\* returns what the previous get_logs returned if no append and no clear has
\* taken effect in between.
C8_ReadOnlyIdempotent ==
    [][\A t \in Threads :
          (op[t] = "get_logs" /\ StepOf(t)) =>
             /\ LOGS' = LOGS
             /\ LOG_LEVEL' = LOG_LEVEL
             /\ (Returns(t) /\ lastSnap # <<>>) => result[t] = lastSnap[1]]_vars

\* C8 witness: get_logs is about to return a non-empty sequence after an
\* earlier get_logs returned, with no append or clear in between.
C8_Witness ==
    \E t \in Threads :
       /\ op[t] = "get_logs" /\ Collected(t)
       /\ lastSnap # <<>> /\ lastSnap[1] # <<>>

\* C9 as stated: a record call appends only if its level passes the threshold
\* in force at the moment of the append, and returns without appending only
\* if its level does not pass the threshold in force at that moment.
C9_CheckAndAppendAtomic ==
    [][\A t \in Threads :
          (Recording(t) /\ Returns(t)) =>
             IF pc[t] = "lwl:push"
             THEN priority[level[t]] <= priority[LOG_LEVEL]
             ELSE priority[level[t]] > priority[LOG_LEVEL]]_vars

\* C9 amended: a record call decides at the instant it reads the threshold:
\* it goes on iff priority(level) <= priority(threshold read), and returns
\* with the buffer unchanged otherwise; a call that goes on returns only by
\* appending its record, whatever the threshold has become.
C9_DecidedAtThresholdRead ==
    [][\A t \in Threads :
          (Recording(t) /\ StepOf(t)) =>
             /\ pc[t] = "lwl:level" =>
                   IF priority[level[t]] <= priority[LOG_LEVEL]
                   THEN pc'[t] = "lwl:now" /\ LOGS' = LOGS
                   ELSE Returns(t) /\ LOGS' = LOGS
             /\ pc[t] # "lwl:level" =>
                   IF pc[t] = "lwl:push"
                   THEN Returns(t) /\ AppendedTo(LOGS, message[t], level[t], LOGS')
                   ELSE ~Returns(t) /\ LOGS' = LOGS]_vars

\* C9 witness: a record call at level Debug passed the filter, the threshold
\* has become Error since, and the call is about to append.
C9_Witness ==
    \E t \in Threads :
       pc[t] = "lwl:push" /\ level[t] = "Debug" /\ LOG_LEVEL = "Error"

C11_ThresholdOnlyBySetUp ==
    [][/\ LOG_LEVEL' # LOG_LEVEL =>
             \E t \in Threads : op[t] = "set_up_logger" /\ Returns(t)
       /\ \A t \in Threads :
             StepOf(t) =>
                /\ op[t] # "set_up_logger" => LOG_LEVEL' = LOG_LEVEL
                /\ op[t] = "set_up_logger" => LOGS' = LOGS
                /\ (pc[t] = "lwl:level" /\ Returns(t)) =>
                      (LOGS' = LOGS /\ LOG_LEVEL' = LOG_LEVEL /\ stdout' = stdout)]_vars

\* C11 witness: with the calls made one after the other, a record at level
\* Debug was appended under the default threshold, set_up_logger(Error) has
\* returned since, a later record call at level Info was filtered out, and
\* the Debug record is still the buffer.
C11_Witness ==
    /\ serial /\ Quiet
    /\ configured = "Error" /\ LOG_LEVEL = "Error"
    /\ calls = 2 /\ wiped = {}
    /\ Len(LOGS) = 1 /\ LOGS[1].level = "Debug" /\ LOGS[1].message = 1

\* C12: every step leaves the buffer as it is, extends it by exactly one
\* record at its end (the records before it, with their message, level and
\* timestamp, stay where they are), or empties it.
C12_AppendOnly ==
    [][\/ LOGS' = LOGS
       \/ /\ Len(LOGS') = Len(LOGS) + 1
          /\ SubSeq(LOGS', 1, Len(LOGS)) = LOGS
       \/ LOGS' = <<>>]_vars

\* C12 witness: a clear has emptied a buffer of two records, and get_logs
\* has since read a buffer without any record.
C12_Witness ==
    /\ Cardinality(wiped) = 2
    /\ LOGS = <<>>
    /\ lastSnap = <<<<>>>>

\* C15: no step of print_logs changes the buffer or the threshold; the lines
\* it holds when get_logs has returned to it are the rendering of the buffer
\* at that instant; and from then on standard output followed by the lines
\* still to print is standard output as it was followed by these lines, so
\* when the call returns it has written exactly these lines, in their order.
C15_PrintsOneSnapshot ==
    [][\A t \in Threads :
          (op[t] = "print_logs" /\ StepOf(t)) =>
             /\ LOGS' = LOGS
             /\ LOG_LEVEL' = LOG_LEVEL
             /\ pc'[t] \in {"get:read", "get:iter"} => stdout' = stdout
             /\ (pc[t] = "get:iter" /\ pc'[t] = "print:line") =>
                   /\ printing' = <<[before |-> stdout, lines |-> Rendering(LOGS)]>>
                   /\ stdout' = stdout
             /\ pc'[t] = "print:line" =>
                   stdout' \o result'[t] = printing'[1].before \o printing'[1].lines
             /\ Returns(t) =>
                   /\ printing' = printing
                   /\ stdout' = printing[1].before \o printing[1].lines]_vars

\* C15 witness: print_logs has written the one line of its snapshot, and
\* another thread has appended a record since the snapshot was taken.
C15_Witness ==
    \E t \in Threads :
       /\ op[t] = "print_logs" /\ pc[t] = "print:line" /\ result[t] = <<>>
       /\ Len(stdout) = 1 /\ stdout[1].message = 1
       /\ Len(LOGS) = 2 /\ LOGS[2].message = 2

\* C20: in every state, each lock is held by at most one writer, and by no
\* reader while it is held by a writer; the buffer lock is held for writing
\* exactly by the thread at the append of a record call or at the clearing
\* of clear, and for reading exactly by the threads collecting in get_logs;
\* the threshold lock is held for writing exactly by the thread at the store
\* of set_up_logger, and for reading exactly by the threads at a level check.
C20_LockDiscipline ==
    /\ \A lock \in {LOGS_lock, LEVEL_lock} :
          /\ Cardinality(lock.writer) <= 1
          /\ lock.writer # {} => lock.readers = {}
    /\ LOGS_lock.writer = {t \in Threads : pc[t] \in {"lwl:push", "clear:clear"}}
    /\ LOGS_lock.readers = {t \in Threads : pc[t] = "get:iter"}
    /\ LEVEL_lock.writer = {t \in Threads : pc[t] = "sul:store"}
    /\ LEVEL_lock.readers = {t \in Threads : pc[t] \in {"log:level", "lwl:level"}}

\* C20 witness: two threads hold the buffer lock for reading at once, over a
\* buffer that is not empty.
C20_Witness ==
    /\ Cardinality(LOGS_lock.readers) = 2
    /\ LOGS_lock.writer = {}
    /\ LOGS # <<>>

\* the level each of the four shorthands records at
FixedLevel ==
    [log_info |-> "Info", log_debug |-> "Debug", log_error |-> "Error", log_warn |-> "Warn"]

\* C13: with set_up_logger never called and the calls made one after the
\* other, log_info, log_debug, log_error and log_warn record at their level;
\* in the synchronous build each of them appends its record, and get_logs
\* returns one line per call made, in call order; in the asynchronous build
\* log_debug returns with the buffer unchanged, the other three append, and
\* get_logs returns their lines in call order, none of level Debug.
C13_DefaultThresholds ==
    [][\A t \in Threads :
          /\ (op[t] \in DOMAIN FixedLevel /\ Returns(t)) =>
                /\ level[t] = FixedLevel[op[t]]
                /\ IF build = "async" /\ op[t] = "log_debug"
                   THEN LOGS' = LOGS
                   ELSE AppendedTo(LOGS, message[t], FixedLevel[op[t]], LOGS')
          /\ (op[t] = "get_logs" /\ Returns(t)) =>
                /\ \A i \in 1..Len(result[t]) : result[t][i] = Line(LOGS[i])
                /\ \A i, j \in 1..Len(result[t]) :
                      i < j => result[t][i].message < result[t][j].message
                /\ build = "sync" =>
                      /\ Len(result[t]) = calls
                      /\ \A i \in 1..calls : result[t][i].message = i
                /\ build = "async" =>
                      /\ Len(result[t]) = Len(LOGS)
                      /\ \A i \in 1..Len(result[t]) : result[t][i].tag # "Debug"]_vars

\* C13 witness: asynchronous build; log_info, log_debug, log_error and
\* log_warn were called in this order and get_logs is about to return the
\* lines of the first, the third and the fourth.
C13_Witness ==
    \E t \in Threads :
       /\ build = "async" /\ configured = NoLevel
       /\ Collected(t) /\ calls = 4
       /\ [i \in 1..Len(result[t]) |-> <<result[t][i].tag, result[t][i].message>>]
             = << <<"Info", 1>>, <<"Error", 3>>, <<"Warn", 4>> >>

\* the step taken changes nothing but the lines of waiting tasks
WaitsOnly == UNCHANGED <<shared, frame, counters, history, entry, outside>>

Range ==
    [T \in IntType |-> CASE T = "i8"  -> -128..127
                         [] T = "u8"  -> 0..255
                         [] T = "i16" -> -32768..32767
                         [] T = "u16" -> 0..65535]

\* C16: for a value v of an integer type and a target type U, to returns
\* Some(v) if v is a value of U and None otherwise, to_or returns v in the
\* first case and the fallback in the second, and to_result returns Ok(v) in
\* the first case and an Err in the second; so whatever is returned for a
\* value out of range is never the value wrapped or truncated.
C16_ConversionsChecked ==
    input.trait = "ConvertUtils" =>
       LET v == input.self
           fits == v \in Range[input.U]
       IN  /\ v \in Range[input.T]
           /\ "to" \in DOMAIN output =>
                 output.to = IF fits THEN Some(v) ELSE None
           /\ "to_or" \in DOMAIN output =>
                 output.to_or = IF fits THEN v ELSE input.fallback
           /\ "to_result" \in DOMAIN output =>
                 IF fits THEN output.to_result = Ok(v) ELSE ~output.to_result.ok

\* C16 witness: 256 as an i16 converted to u8, with fallback 255: to has
\* returned None, to_or 255 and to_result an Err.
C16_Witness ==
    /\ input.trait = "ConvertUtils"
    /\ input.T = "i16" /\ input.self = 256 /\ input.U = "u8" /\ input.fallback = 255
    /\ DOMAIN output = {"to", "to_or", "to_result"}
    /\ output.to = None /\ output.to_or = 255 /\ ~output.to_result.ok

\* the order of the values of T: a < b, and a = b as PartialEq has it
Less(a, b) == ~a.nan /\ ~b.nan /\ a.n < b.n
Same(a, b) == ~a.nan /\ ~b.nan /\ a.n = b.n

\* C17: if_between runs f once and returns Some of its result if
\* low < x < high, and otherwise returns None without running f;
\* if_between_inclusive does so for low <= x <= high; both return None if
\* low > high; and if the two differ, x = low or x = high.
C17_Between ==
    input.trait = "IfOrdUtils" =>
       LET x == input.self
           low == input.low
           high == input.high
           inside == Less(low, x) /\ Less(x, high)
           within == (Less(low, x) \/ Same(low, x)) /\ (Less(x, high) \/ Same(x, high))
           ran == [ret |-> Some(input.f), ran |-> 1]
           skipped == [ret |-> None, ran |-> 0]
       IN  /\ "if_between" \in DOMAIN output =>
                 /\ output.if_between = IF inside THEN ran ELSE skipped
                 /\ Less(high, low) => output.if_between = skipped
           /\ "if_between_inclusive" \in DOMAIN output =>
                 /\ output.if_between_inclusive = IF within THEN ran ELSE skipped
                 /\ Less(high, low) => output.if_between_inclusive = skipped
           /\ DOMAIN output = {"if_between", "if_between_inclusive"} =>
                 (output.if_between # output.if_between_inclusive =>
                     (Same(x, low) \/ Same(x, high)))

\* C17 witness: x = low = 1 and high = 2: if_between has returned None
\* without running f, if_between_inclusive has run f and returned its result.
C17_Witness ==
    /\ input.trait = "IfOrdUtils"
    /\ ~input.self.nan /\ input.self.n = 1
    /\ input.low = input.self
    /\ ~input.high.nan /\ input.high.n = 2
    /\ DOMAIN output = {"if_between", "if_between_inclusive"}
    /\ output.if_between = [ret |-> None, ran |-> 0]
    /\ output.if_between_inclusive = [ret |-> Some(input.f), ran |-> 1]

\* C18: for a Duration of t whole seconds (what it has beyond them is
\* dropped), pretty yields the decimal h, "h ", the decimal m, "m ", the
\* decimal s, "s", with h = t div 3600 (not reduced modulo 24), 0 <= m < 60,
\* 0 <= s < 60 and h*3600 + m*60 + s = t.
C18_Pretty ==
    (input.trait = "DurationUtils" /\ "pretty" \in DOMAIN output) =>
       LET t == input.self \div TicksPerSec
           h == t \div 3600
           m == (t - h * 3600) \div 60
           s == t - h * 3600 - m * 60
       IN  /\ 0 <= m /\ m < 60
           /\ 0 <= s /\ s < 60
           /\ h * 3600 + m * 60 + s = t
           /\ output.pretty =
                 Display(h) \o <<"h", " ">> \o Display(m) \o <<"m", " ">>
                    \o Display(s) \o <<"s">>

\* C18 witness: a Duration of 25 hours and a part of a second is shown as
\* "25h 0m 0s".
C18_Witness ==
    /\ input.trait = "DurationUtils"
    /\ input.self = 90000 * TicksPerSec + 1
    /\ "pretty" \in DOMAIN output
    /\ output.pretty = <<"2", "5", "h", " ", "0", "m", " ", "0", "s">>

\* C19: the calls leave the boolean as it is; if_true runs f (once, returning
\* Some of its result) exactly if b is true, if_false exactly if b is false,
\* and the one that does not run f returns None: of the two, exactly one runs f.
C19_OneOfTrueFalse ==
    [][/\ input' = input
       /\ input.trait = "BoolUtils" =>
             LET ran == [ret |-> Some(input.f), ran |-> 1]
                 skipped == [ret |-> None, ran |-> 0]
             IN  /\ "if_true" \in DOMAIN output' =>
                       output'.if_true = IF input.self = TRUE THEN ran ELSE skipped
                 /\ "if_false" \in DOMAIN output' =>
                       output'.if_false = IF input.self = FALSE THEN ran ELSE skipped
                 /\ DOMAIN output' = {"if_true", "if_false"} =>
                       output'.if_true.ran + output'.if_false.ran = 1]_vars

\* C19 witness: b is false: if_true has returned None without running f, and
\* if_false has run f once and returned its result.
C19_Witness ==
    /\ input.trait = "BoolUtils"
    /\ input.self = FALSE
    /\ DOMAIN output = {"if_true", "if_false"}
    /\ output.if_true = [ret |-> None, ran |-> 0]
    /\ output.if_false = [ret |-> Some(input.f), ran |-> 1]


(***************************************************************************)
(* Timestamps.  A record call reads the clock while it builds its Logger,  *)
(* before it asks for the buffer lock.                                     *)
(***************************************************************************)
\* C23 as stated: with a clock that never goes back, the timestamps of the
\* buffered records never decrease along the buffer, in every reachable state,
\* also when several threads record at once.
C23_TimestampsInBufferOrder ==
    \A i, j \in 1..Len(LOGS) : i < j => LOGS[i].time <= LOGS[j].time

\* C23 as amended: with a clock that never goes back, a buffered record whose
\* record call had returned when the call of another buffered record started
\* stands before it in the buffer and has a timestamp that is not the later
\* one; between the records of calls that overlap the claim promises nothing.
C23_TimestampsInCallOrder ==
    \A i, j \in 1..Len(LOGS) :
        <<LOGS[i].message, LOGS[j].message>> \in hb =>
            /\ i < j
            /\ LOGS[i].time <= LOGS[j].time

\* C23 witness: two threads have recorded, the second call started after the
\* first had returned, and the clock moved between the two readings.
C23_Witness ==
    /\ ~serial
    /\ \E i, j \in 1..Len(LOGS) :
          /\ <<LOGS[i].message, LOGS[j].message>> \in hb
          /\ LOGS[i].time < LOGS[j].time


(***************************************************************************)
(* The threshold a record was admitted under.                              *)
(***************************************************************************)
\* C22: whatever set_up_logger calls run beside a record call, a record is
\* appended to the buffer only by a record call, with the level of that call,
\* and that level passes, priority(level) <= priority(T), a value T that the
\* threshold had at some instant between the start of the call and the
\* append, never only a value the threshold has not had in that time.
C22_AdmittedUnderSeenThreshold ==
    [][Len(LOGS') > Len(LOGS) =>
          \E t \in Threads :
             /\ Recording(t) /\ Returns(t)
             /\ AppendedTo(LOGS, message[t], level[t], LOGS')
             /\ \E T \in seen[t] : priority[level[t]] <= priority[T]]_vars

\* C22 witness: a record call at level Debug is about to append while the
\* threshold is Error; since the call started, set_up_logger calls of the
\* other thread have made the threshold Warn and then Error, and Debug
\* passes only the threshold the call started under.
C22_Witness ==
    \E t \in Threads :
       /\ pc[t] = "lwl:push"
       /\ level[t] = "Debug"
       /\ LOG_LEVEL = "Error"
       /\ seen[t] = {"Debug", "Warn", "Error"}


(***************************************************************************)
(* Locks and progress.                                                     *)
(***************************************************************************)
\* the locks thread t holds
Holds(t) ==
    {lock \in {"LOGS", "LOG_LEVEL"} :
        LET l == IF lock = "LOGS" THEN LOGS_lock ELSE LEVEL_lock
        IN  t \in l.writer \cup l.readers}

\* thread t is inside a call and asks for a lock
Asks(t) ==
    pc[t] \in {"sul:write", "log:get_level", "lwl:get_level", "lwl:write",
               "get:read", "clear:write"}

\* thread t is inside a call and cannot take its next step
Waits(t) == pc[t] # "idle" /\ ~ENABLED Advance(t)

\* no thread holds two locks, none asks for a lock while it holds one, only
\* a thread that asks for a lock waits, and the threads inside a call never
\* all wait
NoDeadlock ==
    /\ \A t \in Threads :
          /\ Cardinality(Holds(t)) <= 1
          /\ Asks(t) => Holds(t) = {}
          /\ Waits(t) => Asks(t)
    /\ ~Quiet => \E t \in Threads : pc[t] # "idle" /\ ~Waits(t)

\* C21 as stated: no operation holds the threshold lock and the buffer lock
\* at once (a record call has released the threshold lock when it asks for
\* the buffer lock), no interleaving of the calls reaches a deadlock, and
\* under fair scheduling every call eventually returns.
C21_EveryCallReturns ==
    /\ []NoDeadlock
    /\ \A t \in Threads : (pc[t] # "idle") ~> (pc[t] = "idle")

\* C21 as amended: no operation holds the two locks at once, no interleaving
\* reaches a deadlock, and under fair scheduling a call goes on until it
\* returns except while it waits for a lock: a call fails to return only if
\* it waits for a lock again and again while other calls hold it.
C21_ReturnsUnlessKeptWaiting ==
    /\ []NoDeadlock
    /\ \A t \in Threads : []<>(pc[t] = "idle" \/ Waits(t))

\* C21 witness: a record call has released the threshold lock and waits for
\* the buffer lock, which the other thread holds while it collects in
\* get_logs.
C21_Witness ==
    \E t, u \in Threads :
       /\ pc[t] = "lwl:write"
       /\ Waits(t)
       /\ Holds(t) = {}
       /\ pc[u] = "get:iter"
       /\ Holds(u) = {"LOGS"}

=============================================================================
